---- MODULE Spec2Model ----
(***************************************************************************)
(* kube-endpoint-discovery: the polling loop of main, the FQDN builder,    *)
(* the node index deriver and the output formatter.                        *)
(*                                                                         *)
(* A Go string is a sequence of one-character strings, so that             *)
(* concatenation, regular expression matching and fmt's verb parsing are   *)
(* computed and not assumed.                                               *)
(***************************************************************************)
EXTENDS Integers, Sequences, FiniteSets, TLC

VARIABLES
    pc,             \* position of main: "cond", "fetch", "sleep", "format", "done", "panic"
    elapsed,        \* seconds since t (time.Since(t)), read at the loop condition
    hosts,          \* main's hosts
    count,          \* main's count
    namespaceName, serviceName, domainName,   \* main's environment strings
    stdout,         \* everything written to standard output so far
    fetches,        \* history: Endpoints(...).Get calls made
    sleeps,         \* history: time.Sleep calls made
    lastFetch,      \* history: outcome of the latest Get: "none", "ok", "err"
    lastSnap,       \* history: <<Subsets>> of the latest successful Get, <<>> before one
    exitKind,       \* history: how the loop was left: "none", "break", "deadline"
    formatCalls,    \* history: calls of formatOutput made by main
    formatArgs,     \* history: the arguments of that call
    arg, ret        \* argument and result of a function applied on its own

vars == <<pc, elapsed, hosts, count, namespaceName, serviceName, domainName,
          stdout, fetches, sleeps, lastFetch, lastSnap, exitKind,
          formatCalls, formatArgs, arg, ret>>

-----------------------------------------------------------------------------
(* Characters and strings *)

DigitChars == <<"0", "1", "2", "3", "4", "5", "6", "7", "8", "9">>

Digits == {DigitChars[i] : i \in 1..10}

Letters == {"a", "b", "c", "d", "e", "f", "g", "h", "i", "j", "k", "l", "m",
            "n", "o", "p", "q", "r", "s", "t", "u", "v", "w", "x", "y", "z",
            "A", "B", "C", "D", "E", "F", "G", "H", "I", "J", "K", "L", "M",
            "N", "O", "P", "Q", "R", "S", "T", "U", "V", "W", "X", "Y", "Z"}

\* regexp \w: [0-9A-Za-z_]
WordChars == Letters \cup Digits \cup {"_"}

DigitVal(c) == CHOOSE n \in 0..9 : DigitChars[n + 1] = c

\* the value of a non-empty sequence of decimal digits
RECURSIVE DecimalValue(_)
DecimalValue(s) ==
    IF Len(s) = 0 THEN 0
    ELSE 10 * DecimalValue(SubSeq(s, 1, Len(s) - 1)) + DigitVal(s[Len(s)])

\* strconv.Atoi with the error dropped: an optional sign and at least one
\* digit, nothing else; a syntax error yields 0.  (Values beyond the int
\* range are not among the inputs.)
Atoi(s) ==
    LET signed == Len(s) > 0 /\ s[1] \in {"+", "-"}
        body   == IF signed THEN Tail(s) ELSE s
        ok     == Len(body) > 0 /\ \A i \in 1..Len(body) : body[i] \in Digits
    IN  IF ~ok THEN 0
        ELSE IF signed /\ s[1] = "-" THEN 0 - DecimalValue(body)
        ELSE DecimalValue(body)

RECURSIVE ItoaNat(_)
ItoaNat(n) ==
    IF n < 10 THEN <<DigitChars[n + 1]>>
    ELSE ItoaNat(n \div 10) \o <<DigitChars[(n % 10) + 1]>>

\* strconv.Itoa
Itoa(n) == IF n < 0 THEN <<"-">> \o ItoaNat(0 - n) ELSE ItoaNat(n)

\* strings.Join
RECURSIVE Join(_, _)
Join(elems, sep) ==
    IF Len(elems) = 0 THEN <<>>
    ELSE IF Len(elems) = 1 THEN elems[1]
    ELSE elems[1] \o sep \o Join(Tail(elems), sep)

CommaSpace == <<",", " ">>

-----------------------------------------------------------------------------
(* getHostnames, getFqdn *)

\* the inner loop of getHostnames: the Hostname of every address of a subset
RECURSIVE AddressHostnames(_)
AddressHostnames(addresses) ==
    IF Len(addresses) = 0 THEN <<>>
    ELSE <<addresses[1].Hostname>> \o AddressHostnames(Tail(addresses))

RECURSIVE getHostnames(_)
getHostnames(subsets) ==
    IF Len(subsets) = 0 THEN <<>>
    ELSE AddressHostnames(subsets[1].Addresses) \o getHostnames(Tail(subsets))

\* getFqdn with the namespace put before the service
RECURSIVE getFqdnNamespaceFirst(_, _, _, _)
getFqdnNamespaceFirst(hostnames, nsName, svcName, domName) ==
    IF Len(hostnames) = 0 THEN <<>>
    ELSE <<hostnames[1] \o <<".">> \o nsName \o <<".">> \o svcName
                        \o <<".">> \o domName>>
         \o getFqdnNamespaceFirst(Tail(hostnames), nsName, svcName, domName)

RECURSIVE getFqdn(_, _, _, _)
getFqdn(hostnames, nsName, svcName, domName) ==
    IF Len(hostnames) = 0 THEN <<>>
    ELSE <<hostnames[1] \o <<".">> \o svcName \o <<".">> \o nsName
                        \o <<".">> \o domName>>
         \o getFqdn(Tail(hostnames), nsName, svcName, domName)

-----------------------------------------------------------------------------
(* getNodeIndex *)

\* The lengths k of a leading run of \w characters after which "-" and a
\* digit follow: the ways (^\w*)-(\d) can match.  ^ is the start of the text,
\* so a match starts at the first character or nowhere.
MatchPrefixes(node) ==
    {k \in 0..Len(node) :
        /\ \A i \in 1..k : node[i] \in WordChars
        /\ k + 2 <= Len(node)
        /\ node[k + 1] = "-"
        /\ node[k + 2] \in Digits}

\* re.FindStringSubmatch(node): <<>> (nil) without a match, else the match
\* and its two groups; \w* is greedy, so the longest prefix is preferred.
FindStringSubmatch(node) ==
    IF MatchPrefixes(node) = {} THEN <<>>
    ELSE LET k == CHOOSE x \in MatchPrefixes(node) :
                      \A y \in MatchPrefixes(node) : y <= x
         IN  <<SubSeq(node, 1, k + 2), SubSeq(node, 1, k), <<node[k + 2]>>>>

Panicked == [panic |-> TRUE, value |-> <<>>]

\* getNodeIndex without index++
getNodeIndexNoIncrement(node) ==
    LET m == FindStringSubmatch(node)
    IN  IF Len(m) < 3 THEN Panicked
        ELSE [panic |-> FALSE, value |-> Itoa(Atoi(m[3]))]

\* Indexing the nil result with [2] is a run-time panic.  Go's [2] is the
\* third element.
getNodeIndex(node) ==
    LET m == FindStringSubmatch(node)
    IN  IF Len(m) < 3 THEN Panicked
        ELSE [panic |-> FALSE, value |-> Itoa(Atoi(m[3]) + 1)]

-----------------------------------------------------------------------------
(* fmt.Printf *)

FlagChars == {"#", "0", "+", "-", " "}

LowerCase == {"a", "b", "c", "d", "e", "f", "g", "h", "i", "j", "k", "l", "m",
              "n", "o", "p", "q", "r", "s", "t", "u", "v", "w", "x", "y", "z"}

\* first position at or after i that holds no flag
RECURSIVE SkipFlags(_, _)
SkipFlags(format, i) ==
    IF i <= Len(format) /\ format[i] \in FlagChars
    THEN SkipFlags(format, i + 1) ELSE i

\* parsenum: first position at or after i that holds no digit
RECURSIVE SkipDigits(_, _)
SkipDigits(format, i) ==
    IF i <= Len(format) /\ format[i] \in Digits
    THEN SkipDigits(format, i + 1) ELSE i

\* position of the verb of the directive whose "%" is at i: after the flags,
\* the width and a "." with its precision.  With an operand left, a lower
\* case letter right after the flags is the verb (doPrintf's fast path).
VerbPos(format, i, operandLeft) ==
    LET f == SkipFlags(format, i + 1)
        w == SkipDigits(format, f)
        p == IF w <= Len(format) /\ format[w] = "."
             THEN SkipDigits(format, w + 1) ELSE w
    IN  IF f <= Len(format) /\ format[f] \in LowerCase /\ operandLeft
        THEN f ELSE p

NoVerbString == <<"%", "!", "(", "N", "O", "V", "E", "R", "B", ")">>

\* missingArg
MissingString(verb) ==
    <<"%", "!", verb, "(", "M", "I", "S", "S", "I", "N", "G", ")">>

\* printArg of a string operand: %s and %v write the string; another verb
\* is reported as %!verb(string=...).  (Width, precision, %q and %x on an
\* operand occur in none of the program's formats.)
PrintArg(x, verb) ==
    IF verb \in {"s", "v"} THEN x
    ELSE <<"%", "!", verb, "(", "s", "t", "r", "i", "n", "g", "=">> \o x \o <<")">>

\* doPrintf from position i with argNum operands used: what is written for
\* format, with the string operands a.  (The characters "*" and "[", which
\* take a width or an operand index from the operands, are in none of the
\* alphabets used here.)
RECURSIVE doPrintf(_, _, _, _)
doPrintf(format, a, i, argNum) ==
    IF i > Len(format) THEN <<>>
    ELSE IF format[i] # "%"
    THEN <<format[i]>> \o doPrintf(format, a, i + 1, argNum)
    ELSE LET v == VerbPos(format, i, argNum < Len(a))
         IN  IF v > Len(format) THEN NoVerbString
             ELSE IF format[v] = "%"
             THEN <<"%">> \o doPrintf(format, a, v + 1, argNum)
             ELSE IF argNum >= Len(a)
             THEN MissingString(format[v]) \o doPrintf(format, a, v + 1, argNum)
             ELSE PrintArg(a[argNum + 1], format[v])
                  \o doPrintf(format, a, v + 1, argNum + 1)

\* what fmt.Printf(format, a...) writes
Printf(format, a) == doPrintf(format, a, 1, 0)

-----------------------------------------------------------------------------
(* formatOutput *)

Zookeeper == <<"z", "o", "o", "k", "e", "e", "p", "e", "r">>

Elasticsearch == <<"e", "l", "a", "s", "t", "i", "c", "s", "e", "a", "r", "c", "h">>

\* the zookeeper format without its newline
ZookeeperFormatNoNewline ==
    <<"s", "e", "r", "v", "e", "r", "%", "s", ":", "%", "s", ":",
      "2", "8", "8", "8", ":", "3", "8", "8", "8">>

\* "server%s:%s:2888:3888\n"
ZookeeperFormat ==
    <<"s", "e", "r", "v", "e", "r", "%", "s", ":", "%", "s", ":",
      "2", "8", "8", "8", ":", "3", "8", "8", "8", "\n">>

\* "discovery.zen.ping.unicast.hosts: [%s]\n"
ElasticsearchFormat ==
    <<"d", "i", "s", "c", "o", "v", "e", "r", "y", ".", "z", "e", "n", ".",
      "p", "i", "n", "g", ".", "u", "n", "i", "c", "a", "s", "t", ".",
      "h", "o", "s", "t", "s", ":", " ", "[", "%", "s", "]", "\n">>

\* the zookeeper case: one Printf per host; getNodeIndex(host) is evaluated
\* before the line is printed, so a panic keeps the lines already written
\* and writes nothing for the host it fails on.
RECURSIVE ZookeeperLines(_)
ZookeeperLines(result) ==
    IF Len(result) = 0 THEN [panic |-> FALSE, out |-> <<>>]
    ELSE LET ix == getNodeIndex(result[1])
         IN  IF ix.panic THEN [panic |-> TRUE, out |-> <<>>]
             ELSE LET rest == ZookeeperLines(Tail(result))
                  IN  [panic |-> rest.panic,
                       out   |-> Printf(ZookeeperFormat, <<ix.value, result[1]>>)
                                 \o rest.out]

\* the default case passes the joined list as the format
DefaultOutput(result) == Printf(Join(result, CommaSpace), <<>>)

\* formatOutput(result, format): what it writes to standard output and
\* whether it panics
formatOutput(result, format) ==
    IF format = Zookeeper THEN ZookeeperLines(result)
    ELSE IF format = Elasticsearch
    THEN [panic |-> FALSE,
          out   |-> Printf(ElasticsearchFormat, <<Join(result, CommaSpace)>>)]
    ELSE [panic |-> FALSE, out |-> DefaultOutput(result)]

-----------------------------------------------------------------------------
(* Bounds and input pools *)

\* longest Get, in seconds, short of one that blocks for the whole deadline
MaxFetchDur == 1

\* longest time, in seconds, a time.Sleep overshoots its duration
MaxOversleep == 1

\* most seconds the loop may lag behind its sleeps before only the blocking
\* Get adds more
MaxDrift == 2

SeqsUpTo(S, n) == UNION {[1..k -> S] : k \in 0..n}

\* values of MINIMUM_MASTER_NODES: unset, "0", "1", "2", "-1", "x"
MinimumMasterNodesEnv ==
    {<<>>, <<"0">>, <<"1">>, <<"2">>, <<"-", "1">>, <<"x">>}

ServiceNames == {Zookeeper, Elasticsearch, <<"e", "s">>}

NamespaceNames == {<<"n", "s">>}

DomainNames == {<<"l", "o">>}

Address(hostname) == [Hostname |-> hostname]

Subset(hostnames) ==
    [Addresses |-> [i \in 1..Len(hostnames) |-> Address(hostnames[i])]]

Zk0 == <<"z", "k", "-", "0">>

Zk1 == <<"z", "k", "-", "1">>

\* the Subsets the cluster may answer a Get with
PollSnapshots ==
    { <<>>,
      <<Subset(<<Zk0>>)>>,
      <<Subset(<<>>), Subset(<<Zk1>>)>>,
      <<Subset(<<Zk0>>), Subset(<<Zk1>>)>>,
      <<Subset(<<Zk0, <<>>>>), Subset(<<Zk0>>)>> }

-----------------------------------------------------------------------------
(* main *)

\* 5*time.Minute, in seconds
Deadline == 300

\* 10*time.Second, in seconds
SleepTime == 10

\* the loop condition with <= for <
LoopConditionInclusive(e) == e <= Deadline

\* the loop condition, time.Since(t) < 5*time.Minute
LoopCondition(e) == e < Deadline

\* the break condition with >= for ==
QuorumReachedAtLeast(h, c) == Len(h) > 0 /\ Len(h) >= c

\* the break condition with > for ==
QuorumReachedAbove(h, c) == Len(h) > 0 /\ Len(h) > c

\* the break condition without len(hosts) > 0
QuorumReachedAnyLength(h, c) == Len(h) = c

\* if len(hosts) > 0 && len(hosts) == count { break }
QuorumReached(h, c) == Len(h) > 0 /\ Len(h) = c

\* a failed Get that empties hosts
HostsResetOnError(h) == <<>>

\* hosts after a Get that failed: continue, hosts is not assigned
HostsAfterError(h) == h

\* hosts after a Get that succeeded
HostsAfterSuccess(h, subsets) ==
    getFqdn(getHostnames(subsets), namespaceName, serviceName, domainName)

\* the time at which time.Sleep(10 * time.Second) returns: no earlier than
\* asked, later by the overshoot
SleepEnd(e, overshoot) == e + SleepTime + overshoot

\* formatOutput called with the namespace as the selector
FormatCallArgsNamespace == [result |-> hosts, format |-> namespaceName]

\* the arguments main passes to formatOutput
FormatCallArgs == [result |-> hosts, format |-> serviceName]

Drift(e, s) == e - SleepTime * s

\* how long a Get may take: a moment, or the whole deadline
FetchDurations ==
    {d \in 0..MaxFetchDur : Drift(elapsed + d, sleeps) <= MaxDrift} \cup {Deadline}

Overshoots ==
    {o \in 0..MaxOversleep : o = 0 \/ Drift(elapsed + o, sleeps) <= MaxDrift}

NoCall == <<>>

Init ==
    /\ pc = "cond"
    /\ elapsed = 0
    /\ hosts = <<>>
    /\ \E env \in MinimumMasterNodesEnv : count = Atoi(env)
    /\ namespaceName \in NamespaceNames
    /\ serviceName \in ServiceNames
    /\ domainName \in DomainNames
    /\ stdout = <<>>
    /\ fetches = 0
    /\ sleeps = 0
    /\ lastFetch = "none"
    /\ lastSnap = <<>>
    /\ exitKind = "none"
    /\ formatCalls = 0
    /\ formatArgs = NoCall
    /\ arg = NoCall
    /\ ret = NoCall

\* the condition of the for statement
CheckDeadline ==
    /\ pc = "cond"
    /\ IF LoopCondition(elapsed)
       THEN pc' = "fetch" /\ exitKind' = exitKind
       ELSE pc' = "format" /\ exitKind' = "deadline"
    /\ UNCHANGED <<elapsed, hosts, count, namespaceName, serviceName, domainName,
                   stdout, fetches, sleeps, lastFetch, lastSnap,
                   formatCalls, formatArgs, arg, ret>>

\* the loop body when Get returns an error
FetchError ==
    /\ pc = "fetch"
    /\ \E d \in FetchDurations : elapsed' = elapsed + d
    /\ fetches' = fetches + 1
    /\ lastFetch' = "err"
    /\ hosts' = HostsAfterError(hosts)
    /\ pc' = "sleep"
    /\ UNCHANGED <<count, namespaceName, serviceName, domainName, stdout, sleeps,
                   lastSnap, exitKind, formatCalls, formatArgs, arg, ret>>

\* the loop body when Get returns the endpoints
FetchSuccess ==
    /\ pc = "fetch"
    /\ \E d \in FetchDurations : elapsed' = elapsed + d
    /\ fetches' = fetches + 1
    /\ lastFetch' = "ok"
    /\ \E subsets \in PollSnapshots :
          /\ lastSnap' = <<subsets>>
          /\ hosts' = HostsAfterSuccess(hosts, subsets)
    /\ IF QuorumReached(hosts', count)
       THEN pc' = "format" /\ exitKind' = "break"
       ELSE pc' = "sleep" /\ exitKind' = exitKind
    /\ UNCHANGED <<count, namespaceName, serviceName, domainName, stdout, sleeps,
                   formatCalls, formatArgs, arg, ret>>

\* the post statement of the for statement
Sleep ==
    /\ pc = "sleep"
    /\ \E o \in Overshoots : elapsed' = SleepEnd(elapsed, o)
    /\ sleeps' = sleeps + 1
    /\ pc' = "cond"
    /\ UNCHANGED <<hosts, count, namespaceName, serviceName, domainName, stdout,
                   fetches, lastFetch, lastSnap, exitKind, formatCalls,
                   formatArgs, arg, ret>>

\* formatOutput(hosts, serviceName) and the end of main
Format ==
    /\ pc = "format"
    /\ formatCalls' = formatCalls + 1
    /\ formatArgs' = FormatCallArgs
    /\ LET r == formatOutput(FormatCallArgs.result, FormatCallArgs.format)
       IN  /\ stdout' = stdout \o r.out
           /\ pc' = IF r.panic THEN "panic" ELSE "done"
    /\ UNCHANGED <<elapsed, hosts, count, namespaceName, serviceName, domainName,
                   fetches, sleeps, lastFetch, lastSnap, exitKind, arg, ret>>

Next == CheckDeadline \/ FetchError \/ FetchSuccess \/ Sleep \/ Format

Spec == Init /\ [][Next]_vars

\* main is one goroutine and every Get and every time.Sleep returns: the
\* loop condition, the loop body and the post statement are each taken
\* when they are next
FairSpec ==
    /\ Spec
    /\ WF_vars(CheckDeadline)
    /\ WF_vars(FetchError \/ FetchSuccess)
    /\ WF_vars(Sleep)

-----------------------------------------------------------------------------
(* The functions applied on their own *)

\* most subsets of a snapshot, most addresses of a subset
MaxSubsets == 2

MaxAddresses == 2

\* longest node name given to getNodeIndex
MaxNodeLen == 5

\* longest list given to formatOutput
MaxResultLen == 2

FqdnHostnames == {<<>>, <<"a">>}

FqdnSubsets == {Subset(h) : h \in SeqsUpTo(FqdnHostnames, MaxAddresses)}

FqdnArgs ==
    [subsets : SeqsUpTo(FqdnSubsets, MaxSubsets),
     ns      : {<<"n">>},
     svc     : {<<"s", "v">>},
     dom     : {<<>>, <<"d">>}]

NodeAlphabet == {"z", "-", "0", "9", "."}

NodeArgs == SeqsUpTo(NodeAlphabet, MaxNodeLen)

FormatStrings ==
    { <<>>,
      <<"z", "-", "0">>,
      <<"z", "-", "9", ".", "d">>,
      <<"z", "k">>,
      <<"a", "%", "d">>,
      <<"5", "%", "%">>,
      <<"b", "%">>,
      <<"%", "-", "0", "3", ".", "1", "f">> }

FormatSelectors == {Zookeeper, Elasticsearch, <<"e", "s">>, <<>>}

FormatOutputArgs ==
    [result : SeqsUpTo(FormatStrings, MaxResultLen), format : FormatSelectors]

\* the state of a run that only applies one function to a
Idle(a) ==
    /\ pc = "call"
    /\ arg = a
    /\ ret = NoCall
    /\ elapsed = 0
    /\ hosts = <<>>
    /\ count = 0
    /\ namespaceName = <<>>
    /\ serviceName = <<>>
    /\ domainName = <<>>
    /\ stdout = <<>>
    /\ fetches = 0
    /\ sleeps = 0
    /\ lastFetch = "none"
    /\ lastSnap = <<>>
    /\ exitKind = "none"
    /\ formatCalls = 0
    /\ formatArgs = NoCall

Return(r) ==
    /\ pc = "call"
    /\ pc' = "returned"
    /\ ret' = <<r>>
    /\ UNCHANGED <<elapsed, hosts, count, namespaceName, serviceName, domainName,
                   stdout, fetches, sleeps, lastFetch, lastSnap, exitKind,
                   formatCalls, formatArgs, arg>>

InitFqdn == \E a \in FqdnArgs : Idle(a)

\* getFqdn(getHostnames(endpoints.Subsets), namespaceName, serviceName, domainName)
CallFqdn == Return(getFqdn(getHostnames(arg.subsets), arg.ns, arg.svc, arg.dom))

SpecFqdn == InitFqdn /\ [][CallFqdn]_vars

InitIndex == \E a \in NodeArgs : Idle(a)

CallGetNodeIndex == Return(getNodeIndex(arg))

SpecIndex == InitIndex /\ [][CallGetNodeIndex]_vars

InitFormat == \E a \in FormatOutputArgs : Idle(a)

CallFormatOutput == Return(formatOutput(arg.result, arg.format))

SpecFormat == InitFormat /\ [][CallFormatOutput]_vars

-----------------------------------------------------------------------------
(* Properties of the polling loop, checked under Spec and FairSpec *)

LoopOver == pc \in {"format", "done", "panic"}

\* the latest Get succeeded with a list that has exactly the target's length
QuorumSeen == lastFetch = "ok" /\ count > 0 /\ Len(hosts) = count

\* C1: a loop body leaves the loop by break if and only if its Get succeeded
\* and the recomputed list is non-empty and exactly as long as the target;
\* any other body, a longer or shorter list included, goes on to the sleep;
\* and the loop is left by break in no other step.
C1_BreakIffExactQuorum ==
    [][/\ fetches' = fetches + 1 =>
            /\ (pc' = "format" /\ exitKind' = "break")
                 <=> (lastFetch' = "ok" /\ Len(hosts') > 0 /\ Len(hosts') = count)
            /\ ~(lastFetch' = "ok" /\ Len(hosts') > 0 /\ Len(hosts') = count)
                 => (pc' = "sleep" /\ exitKind' = "none")
       /\ (exitKind' = "break" /\ exitKind # "break") => fetches' = fetches + 1
      ]_vars

\* a Get answered with more hosts than the target, and the loop goes on
C1_LongerListKeepsPolling ==
    pc = "sleep" /\ lastFetch = "ok" /\ count > 0 /\ Len(hosts) > count

\* C2: once a Get has yielded a list of exactly the (positive) target's
\* length, no step makes another Get, sleeps or changes hosts, and the list
\* formatOutput is called with is that list.
C2_NothingAfterQuorum ==
    /\ [][QuorumSeen =>
            (fetches' = fetches /\ sleeps' = sleeps /\ hosts' = hosts)]_vars
    /\ [](QuorumSeen /\ formatCalls > 0 => formatArgs.result = hosts)

\* quorum was met on a later Get and the program ran to its end
C2_QuorumThenDone ==
    QuorumSeen /\ pc = "done" /\ fetches >= 2 /\ formatCalls = 1

\* C3: when every Get and every sleep returns, the loop ends and control
\* reaches the call of the formatter; no Get starts once 5 minutes have elapsed; every
\* Get after the first follows a sleep of at least 10 seconds; so a run
\* makes at most Deadline / SleepTime = 30 Gets.
C3_LoopTerminates ==
    /\ <>LoopOver
    /\ [][fetches' = fetches + 1 => elapsed < Deadline]_vars
    /\ [](fetches <= sleeps + 1 /\ elapsed >= SleepTime * sleeps)
    /\ [](fetches <= Deadline \div SleepTime)

\* the deadline ended a run that made every Get it could
C3_ThirtyFetches ==
    pc = "done" /\ exitKind = "deadline" /\ fetches = Deadline \div SleepTime

\* C4: a failed Get leaves hosts as it was and goes on to the sleep; hosts
\* is always the FQDN list of the latest successful Get, whole and alone, or
\* empty when no Get has succeeded.
C4_HostsOfLastSuccess ==
    /\ [][(fetches' = fetches + 1 /\ lastFetch' = "err")
             => (hosts' = hosts /\ pc' = "sleep")]_vars
    /\ [](hosts = IF lastSnap = <<>> THEN <<>>
                  ELSE getFqdn(getHostnames(lastSnap[1]),
                               namespaceName, serviceName, domainName))

\* a Get failed after one that had found hosts, and they are still there
C4_ErrorKeepsHosts ==
    pc = "sleep" /\ lastFetch = "err" /\ Len(hosts) > 0

\* C5: the formatter is called at most once, never while the loop runs, and
\* by the end of main exactly once, with hosts and the service name; what is
\* on standard output is what that one call wrote, the same for either way
\* out of the loop, and nothing is written before the loop is over.
C5_FormatOnceAtEnd ==
    /\ formatCalls <= 1
    /\ ~LoopOver => (formatCalls = 0 /\ stdout = <<>> /\ exitKind = "none")
    /\ pc = "format" => (formatCalls = 0 /\ stdout = <<>>)
    /\ LoopOver => exitKind \in {"break", "deadline"}
    /\ pc \in {"done", "panic"} =>
          /\ formatCalls = 1
          /\ formatArgs = [result |-> hosts, format |-> serviceName]
          /\ stdout = formatOutput(hosts, serviceName).out

\* the deadline ended the loop with no host found, and the formatter ran
C5_DeadlineWithEmptyList ==
    pc = "done" /\ exitKind = "deadline" /\ hosts = <<>> /\ formatCalls = 1

\* C10: with a target of zero or less the loop is never left by break; it
\* ends only at the deadline, and the formatter gets the list computed last.
C10_NoQuorumAtNonPositiveTarget ==
    count <= 0 =>
        /\ exitKind # "break"
        /\ LoopOver => (exitKind = "deadline" /\ elapsed >= Deadline)
        /\ formatCalls > 0 => formatArgs.result = hosts

\* target 0, the last Get answered with no host at all, and the run ended
C10_ZeroTargetEmptyAnswer ==
    count = 0 /\ pc = "done" /\ lastFetch = "ok" /\ hosts = <<>>

-----------------------------------------------------------------------------
(* Properties of the functions applied on their own *)

RECURSIVE AddressCount(_)
AddressCount(subsets) ==
    IF Len(subsets) = 0 THEN 0
    ELSE Len(subsets[1].Addresses) + AddressCount(Tail(subsets))

\* the Hostname of the i-th address, counting through the subsets in order
RECURSIVE NthHostname(_, _)
NthHostname(subsets, i) ==
    IF i <= Len(subsets[1].Addresses) THEN subsets[1].Addresses[i].Hostname
    ELSE NthHostname(Tail(subsets), i - Len(subsets[1].Addresses))

\* C9: the list built from a snapshot has one element per address of every
\* subset, and its i-th element is the i-th hostname (subset order, then
\* address order), ".", the service, ".", the namespace, ".", the domain;
\* nothing is dropped or merged.
C9_FqdnPerAddress ==
    pc = "returned" =>
        /\ Len(ret[1]) = AddressCount(arg.subsets)
        /\ \A i \in 1..Len(ret[1]) :
              ret[1][i] = NthHostname(arg.subsets, i) \o <<".">> \o arg.svc
                          \o <<".">> \o arg.ns \o <<".">> \o arg.dom

\* two subsets with a repeated hostname and an empty one
C9_DuplicateAndEmptyHostnames ==
    /\ pc = "returned"
    /\ Len(arg.subsets) = 2
    /\ Len(ret[1]) = 3
    /\ ret[1][1] = ret[1][2]
    /\ NthHostname(arg.subsets, 3) = <<>>
    /\ Len(arg.subsets[1].Addresses) = 1

\* position of the first character that is not a \w character, or 0
FirstNonWord(node) ==
    IF \A i \in 1..Len(node) : node[i] \in WordChars THEN 0
    ELSE CHOOSE i \in 1..Len(node) :
            node[i] \notin WordChars /\ \A j \in 1..(i - 1) : node[j] \in WordChars

\* <name>-<d>, whatever follows
HasNameDashDigit(node) ==
    LET h == FirstNonWord(node)
    IN  h > 0 /\ node[h] = "-" /\ h < Len(node) /\ node[h + 1] \in Digits

\* the decimal string of d + 1 for a digit d
SuccessorString(d) ==
    CASE d = "0" -> <<"1">> [] d = "1" -> <<"2">> [] d = "2" -> <<"3">>
      [] d = "3" -> <<"4">> [] d = "4" -> <<"5">> [] d = "5" -> <<"6">>
      [] d = "6" -> <<"7">> [] d = "7" -> <<"8">> [] d = "8" -> <<"9">>
      [] d = "9" -> <<"1", "0">>

\* C6: for <name>-<d>, with or without a suffix, getNodeIndex returns the
\* decimal string of d + 1; for any other input it panics.
C6_IndexIsDigitPlusOne ==
    pc = "returned" =>
        IF HasNameDashDigit(arg)
        THEN /\ ~ret[1].panic
             /\ ret[1].value = SuccessorString(arg[FirstNonWord(arg) + 1])
        ELSE ret[1].panic

\* "z-9.z" gives "10"
C6_NineWithSuffix ==
    /\ pc = "returned"
    /\ arg = <<"z", "-", "9", ".", "z">>
    /\ ret[1] = [panic |-> FALSE, value |-> <<"1", "0">>]

\* server{index}:{fqdn}:2888:3888 and a newline
ZookeeperLine(fqdn) ==
    <<"s", "e", "r", "v", "e", "r">> \o getNodeIndex(fqdn).value \o <<":">>
    \o fqdn \o <<":", "2", "8", "8", "8", ":", "3", "8", "8", "8", "\n">>

RECURSIVE ConcatLines(_)
ConcatLines(fqdns) ==
    IF Len(fqdns) = 0 THEN <<>>
    ELSE ZookeeperLine(fqdns[1]) \o ConcatLines(Tail(fqdns))

NewlineCount(s) == Cardinality({i \in 1..Len(s) : s[i] = "\n"})

\* C7: with selector "zookeeper" and a list whose FQDNs all match, the
\* output is the lines server{index}:{fqdn}:2888:3888, each ended by a
\* newline, one per FQDN in list order: as many lines as FQDNs, none for
\* the empty list.  It panics exactly when some FQDN does not match.
C7_ZookeeperLinePerFqdn ==
    (pc = "returned" /\ arg.format = Zookeeper) =>
        LET matching == \A i \in 1..Len(arg.result) : HasNameDashDigit(arg.result[i])
        IN  /\ ret[1].panic <=> ~matching
            /\ matching =>
                  /\ ret[1].out = ConcatLines(arg.result)
                  /\ NewlineCount(ret[1].out) = Len(arg.result)
                  /\ Len(arg.result) = 0 => ret[1].out = <<>>

\* two matching FQDNs, the second with index 10
C7_TwoServers ==
    /\ pc = "returned"
    /\ arg.format = Zookeeper
    /\ arg.result = << <<"z", "-", "0">>, <<"z", "-", "9", ".", "d">> >>
    /\ ~ret[1].panic
    /\ NewlineCount(ret[1].out) = 2

\* C8: with a selector other than "zookeeper" and "elasticsearch", the
\* output is the FQDNs joined by ", ", whatever characters they hold, and
\* nothing for the empty list.
C8_DefaultIsJoin ==
    (pc = "returned" /\ arg.format \notin {Zookeeper, Elasticsearch}) =>
        /\ ~ret[1].panic
        /\ ret[1].out = Join(arg.result, CommaSpace)

====
